---- MODULE Spec2Model ----
(***************************************************************************)
(* EcoGuard: the cleanup task lifecycle and team-assignment engine.        *)
(*                                                                         *)
(* State: the three JSON collections the handlers load and save whole      *)
(* (cleanups.json, teams.json, rewards.json), the wall clock, the outcome  *)
(* of the last handler, and the requests in flight (reqs: for each, how    *)
(* far it has got and the copies of the collections it has loaded).  One   *)
(* action per handler of src/models/cleanup.py (CleanupManager) and        *)
(* src/routes/cleanup.py.                                                  *)
(*                                                                         *)
(* Representation.  Python None is Null.  A timestamp is the clock value   *)
(* `now` (one unit = one second, the resolution of the generated ids); no  *)
(* handler reads the value of a timestamp, only whether one is set, and    *)
(* the behaviours below all happen within one second.                      *)
(* An id "cleanup_<second>_<suffix>" is the number second*IdBase+suffix.   *)
(* A notes string is the sequence of its pieces, concatenation is \o.      *)
(* verification_analysis and cleanup_score, two keys the verify_cleanup    *)
(* route adds to a task and nothing ever reads, are not represented.       *)
(***************************************************************************)
EXTENDS Integers, Sequences, FiniteSets, TLC

VARIABLES cleanups, teams, rewards, now, ret, reqs

vars == <<cleanups, teams, rewards, now, ret, reqs>>

---------------------------------------------------------------------------
(* Bounds of the model *)

MaxTasks == 1
MaxTeams == 2
MaxClock == 1
MaxRequests == 2
MaxCleanups == 1
MaxRepeats == 2
WideTasks == 2
WideTeams == 1
PoolSize == 3

---------------------------------------------------------------------------
(* Values of the program *)

Null == -1

PENDING == "pending"
IN_PROGRESS == "in_progress"
CLEANED == "cleaned"
VERIFIED == "verified"

RandLo == 1000
IdBase == 10000
DefaultRating == 5
BasePoints == 25
SeverityDivisor == 10
TeamPoints == 25
ReporterBonus == 10
FallbackScore == 45
DefaultScore == 50
MaxScore == 100
RouteThreshold == 30
ManagerThreshold == 30
LevelStep == 100

\* f"cleanup_{second}_{suffix}" / f"team_{second}_{suffix}"
MakeId(second, suffix) == second * IdBase + suffix

\* The part of a pollution report the engine reads: report["score"] and
\* report["reporter_email"]; the rest of the dict is carried verbatim.
ReportInputs == { [score |-> 82, reporter_email |-> "u3"] }

\* A piece of a notes string: user text, or the annotation
\* "\n[VERIFICATION FAILED] Score: <score>. Cleanup incomplete, task continues."
Text(s) == [text |-> s, score |-> Null]
FailedAnnotation(score) == [text |-> "[VERIFICATION FAILED] Score:", score |-> score]

NoteInputs == { <<>>, <<Text("n1")>> }

\* Per-photo scores returned by analyze_cleanup_verification, one per photo.
PhotoScores == {18, 29, 30, 31}

ScoreRuns == { <<>>, <<29, 30>> } \cup { <<a>> : a \in PhotoScores }

PhotoNames == <<"p1", "p2">>

\* secure_filename(f"verification_{report_id}_{photo.filename}") per upload
PhotoPaths(n) == SubSeq(PhotoNames, 1, n)

RECURSIVE SumSeq(_)
SumSeq(s) == IF s = <<>> THEN 0 ELSE Head(s) + SumSeq(Tail(s))

\* avg_score < threshold, with avg_score = sum(scores) / len(scores) a float
MeanBelow(scores, threshold) == SumSeq(scores) < threshold * Len(scores)

---------------------------------------------------------------------------
(* Records *)

\* The snapshot taken without the reporter's address
NewCleanupSansReporter(report_id, pollution_report, t) ==
    [ report_id |-> report_id,
      pollution_report |-> [pollution_report EXCEPT !.reporter_email = ""],
      status |-> PENDING,
      assigned_team |-> Null,
      assigned_date |-> Null,
      start_date |-> Null,
      completion_date |-> Null,
      cleanup_notes |-> <<>>,
      verification_photos |-> <<>>,
      cleanup_points |-> 0,
      created_at |-> t,
      updated_at |-> t ]

\* CleanupReport.__init__ followed by to_dict
NewCleanup(report_id, pollution_report, t) ==
    [ report_id |-> report_id,
      pollution_report |-> pollution_report,
      status |-> PENDING,
      assigned_team |-> Null,
      assigned_date |-> Null,
      start_date |-> Null,
      completion_date |-> Null,
      cleanup_notes |-> <<>>,
      verification_photos |-> <<>>,
      cleanup_points |-> 0,
      created_at |-> t,
      updated_at |-> t ]

\* CleanupTeam.__init__ followed by to_dict
NewTeam(team_id, name, leader_email, members, t) ==
    [ team_id |-> team_id,
      name |-> name,
      leader_email |-> leader_email,
      members |-> members,
      status |-> "available",
      current_task |-> Null,
      total_cleanups |-> 0,
      total_points |-> 0,
      rating |-> DefaultRating,
      created_at |-> t,
      last_activity |-> t ]

\* UserRewards.__init__
NewUserRewards(email, t) ==
    [ email |-> email,
      badges |-> <<>>,
      total_points |-> 0,
      reporter_points |-> 0,
      cleanup_points |-> 0,
      level |-> 1,
      title |-> "Beach Guardian",
      achievements |-> <<>>,
      created_at |-> t,
      last_updated |-> t ]

Range(s) == { s[i] : i \in 1..Len(s) }

\* next((x for x in seq if ...), None), as the index of the first match (0: None),
\* given the set of the indices that match
FirstIdx(matches) ==
    IF matches = {} THEN 0 ELSE CHOOSE i \in matches : \A j \in matches : i <= j

\* The membership test gone: every identity passes
AnyoneIsMember(team, email) == TRUE

\* email in team["members"]
IsTeamMember(team, email) == email \in Range(team.members)

\* No default: the id that matches nothing falls on the last record
FindCleanupOrLast(cs, report_id) ==
    IF \E i \in 1..Len(cs) : cs[i].report_id = report_id
    THEN FirstIdx({ i \in 1..Len(cs) : cs[i].report_id = report_id })
    ELSE Len(cs)

FindCleanup(cs, report_id) ==
    FirstIdx({ i \in 1..Len(cs) : cs[i].report_id = report_id })

FindTeam(ts, team_id) ==
    FirstIdx({ i \in 1..Len(ts) : ts[i].team_id = team_id })

\* The outcome of the last handler: which handler ran, on which task, and the
\* result it returned or flashed.
Outcome(op, id, result) == [op |-> op, id |-> id, result |-> result]

---------------------------------------------------------------------------
(* Rewards ledger: src/models/rewards.py *)

\* The default badges of _initialize_default_badges, in file order
BadgeIds ==
    << "first_report", "reporter_10", "reporter_50", "first_cleanup", "cleanup_10",
       "cleanup_50", "high_severity", "team_leader", "verification", "environmentalist" >>

\* RewardsManager._qualifies_for_badge
QualifiesForBadge(user, badge_id) ==
    \/ badge_id = "first_report" /\ user.reporter_points >= 10
    \/ badge_id = "reporter_10" /\ user.reporter_points >= 50
    \/ badge_id = "reporter_50" /\ user.reporter_points >= 150
    \/ badge_id = "first_cleanup" /\ user.cleanup_points >= 25
    \/ badge_id = "cleanup_10" /\ user.cleanup_points >= 100
    \/ badge_id = "cleanup_50" /\ user.cleanup_points >= 300
    \/ badge_id = "environmentalist" /\ user.total_points >= 500

\* RewardsManager._check_for_new_badges
CheckForNewBadges(user) ==
    LET New(b) == b \notin Range(user.badges) /\ QualifiesForBadge(user, b)
    IN SelectSeq(BadgeIds, New)

\* The titles dict of _get_title_for_level, by level
Titles ==
    << "Beach Guardian", "Coastal Protector", "Ocean Defender", "Marine Conservationist",
       "Environmental Champion", "Eco Warrior", "Nature Guardian", "Planet Protector",
       "Earth Defender", "Legendary Guardian" >>

\* The default of the lookup taken for the first entry of the table
TitleForLevelOrFirst(level) ==
    CASE level = 1 -> "Beach Guardian"
      [] level = 2 -> "Coastal Protector"
      [] level = 3 -> "Ocean Defender"
      [] level = 4 -> "Marine Conservationist"
      [] level = 5 -> "Environmental Champion"
      [] level = 6 -> "Eco Warrior"
      [] level = 7 -> "Nature Guardian"
      [] level = 8 -> "Planet Protector"
      [] level = 9 -> "Earth Defender"
      [] level = 10 -> "Legendary Guardian"
      [] OTHER -> "Beach Guardian"

\* RewardsManager._get_title_for_level
TitleForLevel(level) ==
    CASE level = 1 -> "Beach Guardian"
      [] level = 2 -> "Coastal Protector"
      [] level = 3 -> "Ocean Defender"
      [] level = 4 -> "Marine Conservationist"
      [] level = 5 -> "Environmental Champion"
      [] level = 6 -> "Eco Warrior"
      [] level = 7 -> "Nature Guardian"
      [] level = 8 -> "Planet Protector"
      [] level = 9 -> "Earth Defender"
      [] OTHER -> "Legendary Guardian"

FindUser(rw, email) ==
    FirstIdx({ i \in 1..Len(rw) : rw[i].email = email })

\* user_data["cleanup_points"] of a user, 0 for a user with no record
CleanupPointsOf(rw, email) ==
    IF FindUser(rw, email) = 0 THEN 0 ELSE rw[FindUser(rw, email)].cleanup_points

\* user_data["reporter_points"] of a user, 0 for a user with no record
ReporterPointsOf(rw, email) ==
    IF FindUser(rw, email) = 0 THEN 0 ELSE rw[FindUser(rw, email)].reporter_points

\* RewardsManager.award_points: the rewards collection after the call
AwardPoints(rw, email, points, category, t) ==
    LET i == FindUser(rw, email)
        user0 == IF i = 0 THEN NewUserRewards(email, t) ELSE rw[i]
        user1 == [user0 EXCEPT
                    !.total_points = @ + points,
                    !.reporter_points = IF category = "reporter" THEN @ + points ELSE @,
                    !.cleanup_points = IF category = "cleanup" THEN @ + points ELSE @]
        user2 == [user1 EXCEPT
                    !.level = (user1.total_points \div LevelStep) + 1,
                    !.title = TitleForLevel((user1.total_points \div LevelStep) + 1),
                    !.last_updated = t]
        new_badges == CheckForNewBadges(user2)
        user3 == IF new_badges = <<>> THEN user2
                 ELSE [user2 EXCEPT
                         !.badges = @ \o new_badges,
                         !.achievements =
                             Append(@, [type |-> "badge_earned", badges |-> new_badges,
                                        date |-> t])]
    IN IF i = 0 THEN Append(rw, user3) ELSE [rw EXCEPT ![i] = user3]

\* RewardsManager.get_or_create_user: the rewards collection after the call
GetOrCreateUser(rw, email, t) ==
    IF FindUser(rw, email) = 0 THEN Append(rw, NewUserRewards(email, t)) ELSE rw

\* for member_email in team["members"]: rewards_manager.award_points(member_email, 25, "cleanup")
RECURSIVE AwardMembers(_, _, _, _)
AwardMembers(rw, members, points, t) ==
    IF members = <<>> THEN rw
    ELSE AwardMembers(AwardPoints(rw, Head(members), points, "cleanup", t),
                      Tail(members), points, t)

---------------------------------------------------------------------------
(* CleanupManager: src/models/cleanup.py *)

\* The key without its tie-break: the rating alone
RatingOnlyLess(a, b) == a.rating < b.rating

\* key=lambda t: (t["rating"], t["total_cleanups"]), compared as Python tuples
TeamKeyLess(a, b) ==
    \/ a.rating < b.rating
    \/ a.rating = b.rating /\ a.total_cleanups < b.total_cleanups

\* available_teams = [t for t in teams if t["status"] == "available"]
AvailableIdx(ts) == { i \in 1..Len(ts) : ts[i].status = "available" }

\* max(available_teams, key=...): the first of the maximal elements, as an index
\* into teams (0 when no team is available)
BestTeamIdx(ts) ==
    IF AvailableIdx(ts) = {} THEN 0
    ELSE CHOOSE i \in AvailableIdx(ts) :
            /\ \A j \in AvailableIdx(ts) : ~TeamKeyLess(ts[i], ts[j])
            /\ \A j \in AvailableIdx(ts) : j < i => TeamKeyLess(ts[j], ts[i])

\* The severity bonus rounded to the nearest ten instead of floored
CalculateCleanupPointsRounded(cleanup) ==
    BasePoints + ((cleanup.pollution_report.score + 5) \div SeverityDivisor)

\* CleanupManager._calculate_cleanup_points
CalculateCleanupPoints(cleanup) ==
    BasePoints + (cleanup.pollution_report.score \div SeverityDivisor)

\* CleanupManager.auto_assign_team: the collections it saves and the value it returns
AutoAssign(cs, ts, report_id, t) ==
    LET ci == FindCleanup(cs, report_id)
        bi == BestTeamIdx(ts)
    IN IF ci = 0 \/ bi = 0
       THEN [cleanups |-> cs, teams |-> ts, team |-> Null]
       ELSE [ cleanups |-> [cs EXCEPT ![ci] =
                              [@ EXCEPT !.assigned_team = ts[bi].team_id,
                                        !.assigned_date = t,
                                        !.status = IN_PROGRESS,
                                        !.updated_at = t]],
              teams |-> [ts EXCEPT ![bi] =
                              [@ EXCEPT !.status = "busy",
                                        !.current_task = report_id,
                                        !.last_activity = t]],
              team |-> ts[bi].team_id ]

\* CleanupManager.update_cleanup_status
UpdateStatus(cs, ts, report_id, status, notes, photos, t) ==
    LET ci == FindCleanup(cs, report_id)
    IN IF ci = 0
       THEN [cleanups |-> cs, teams |-> ts, result |-> "not_found"]
       ELSE
         LET c1 == [cs[ci] EXCEPT !.status = status,
                                  !.cleanup_notes = notes,
                                  !.updated_at = t,
                                  !.verification_photos = @ \o photos]
             c2 == IF status = IN_PROGRESS /\ c1.start_date = Null
                   THEN [c1 EXCEPT !.start_date = t]
                   ELSE IF status = CLEANED
                   THEN [c1 EXCEPT !.completion_date = t,
                                   !.cleanup_points = CalculateCleanupPoints(c1)]
                   ELSE c1
             ti == IF status = CLEANED /\ c2.assigned_team # Null
                   THEN FindTeam(ts, c2.assigned_team) ELSE 0
         IN [ cleanups |-> [cs EXCEPT ![ci] = c2],
              teams |-> IF ti = 0 THEN ts
                        ELSE [ts EXCEPT ![ti] =
                                [@ EXCEPT !.status = "available",
                                          !.current_task = Null,
                                          !.total_cleanups = @ + 1,
                                          !.total_points = @ + c2.cleanup_points,
                                          !.last_activity = t]],
              result |-> "updated" ]

\* CleanupManager.submit_cleanup_verification (cleanup_score = Null: not given)
SubmitVerification(cs, ts, report_id, team_email, notes, photos, cleanup_score, t) ==
    LET ci == FindCleanup(cs, report_id)
        same(result) == [cleanups |-> cs, teams |-> ts, result |-> result]
    IN IF ci = 0 THEN same("not_found")
       ELSE
         LET ti == IF cs[ci].assigned_team # Null
                   THEN FindTeam(ts, cs[ci].assigned_team) ELSE 0
         IN IF cs[ci].assigned_team # Null
               /\ (ti = 0 \/ ~IsTeamMember(ts[ti], team_email))
            THEN same("unauthorized")
            ELSE
              LET c1 == [cs[ci] EXCEPT !.cleanup_notes = notes,
                                       !.verification_photos = photos,
                                       !.updated_at = t]
              IN IF cleanup_score = Null
                 THEN [cleanups |-> [cs EXCEPT ![ci] = c1], teams |-> ts,
                       result |-> "submitted"]
                 ELSE IF cleanup_score <= ManagerThreshold
                 THEN
                   LET c2 == [c1 EXCEPT !.status = CLEANED,
                                        !.completion_date = t,
                                        !.cleanup_points = CalculateCleanupPoints(c1)]
                   IN [ cleanups |-> [cs EXCEPT ![ci] = c2],
                        teams |-> IF ti = 0 THEN ts
                                  ELSE [ts EXCEPT ![ti] =
                                          [@ EXCEPT !.status = "available",
                                                    !.current_task = Null,
                                                    !.total_cleanups = @ + 1,
                                                    !.total_points = @ + c2.cleanup_points,
                                                    !.last_activity = t]],
                        result |-> "accepted" ]
                 ELSE
                   [ cleanups |-> [cs EXCEPT ![ci] =
                                     [c1 EXCEPT !.status = IN_PROGRESS,
                                                !.cleanup_notes =
                                                    Append(@, FailedAnnotation(cleanup_score))]],
                     teams |-> ts,
                     result |-> "rejected" ]

\* CleanupManager._award_reporter_points: the rewards collection after the call.
\* The body of the method is `pass`.
AwardReporterPoints(rw, email, points) == rw

\* The list replaced by the new record instead of extended by it
OverwriteTasks(cs, task) == <<task>>

\* cleanups.append(cleanup_report.to_dict())
AppendTask(cs, task) == Append(cs, task)

\* CleanupManager.create_team: the teams collection it saves
CreateTeamRecord(ts, team_id, name, leader_email, members, t) ==
    Append(ts, NewTeam(team_id, name, leader_email,
                       IF members = <<>> THEN <<leader_email>> ELSE members, t))

---------------------------------------------------------------------------
(* Route handlers: src/routes/cleanup.py *)

\* create_team (POST): the validated member list, or <<>> when the form is rejected
TeamFormMembers(name, leader_email, members) ==
    IF name = "" \/ leader_email = "" THEN <<>>
    ELSE LET member_list == IF leader_email \in Range(members) THEN members
                            ELSE Append(members, leader_email)
         IN IF Len(member_list) < 2 THEN <<>> ELSE member_list

\* The availability test gone: every team passes
AnyTeamIsAvailable(team) == TRUE

\* not (team["status"] != "available")
TeamIsAvailable(team) == team.status = "available"

\* assign_team (POST)
AssignTeamRoute(cs, ts, report_id, team_id, t) ==
    LET ci == FindCleanup(cs, report_id)
        ti == FindTeam(ts, team_id)
        same(result) == [cleanups |-> cs, teams |-> ts, result |-> result]
    IN IF team_id = Null THEN same("team_required")
       ELSE IF ci = 0 \/ ti = 0 THEN same("not_found")
       ELSE IF ~TeamIsAvailable(ts[ti]) THEN same("not_available")
       ELSE [ cleanups |-> [cs EXCEPT ![ci] =
                              [@ EXCEPT !.assigned_team = team_id,
                                        !.assigned_date = t,
                                        !.status = IN_PROGRESS,
                                        !.updated_at = t]],
              teams |-> [ts EXCEPT ![ti] =
                              [@ EXCEPT !.status = "busy",
                                        !.current_task = report_id,
                                        !.last_activity = t]],
              result |-> "assigned" ]

\* verify_cleanup (POST); scores: what analyze_cleanup_verification returned per photo
VerifyCleanupRoute(cs, ts, rw, report_id, email, notes, scores, t) ==
    LET ci == FindCleanup(cs, report_id)
        same(result) == [cleanups |-> cs, teams |-> ts, rewards |-> rw, result |-> result]
    IN IF ci = 0 THEN same("not_found")
       ELSE IF cs[ci].assigned_team = Null THEN same("no_team")
       ELSE
         LET ti == FindTeam(ts, cs[ci].assigned_team)
             photo_paths == PhotoPaths(Len(scores))
         IN IF ti = 0 THEN same("team_not_found")
            ELSE IF ~IsTeamMember(ts[ti], email) THEN same("unauthorized")
            ELSE IF scores = <<>> THEN same("no_photos")
            ELSE IF MeanBelow(scores, RouteThreshold)
            THEN [ cleanups |-> [cs EXCEPT ![ci] =
                                   [@ EXCEPT !.status = CLEANED,
                                             !.completion_date = t,
                                             !.updated_at = t,
                                             !.verification_photos = photo_paths,
                                             !.cleanup_notes = notes]],
                   teams |-> [ts EXCEPT ![ti] =
                                   [@ EXCEPT !.status = "available",
                                             !.current_task = Null,
                                             !.last_activity = t,
                                             !.total_cleanups = @ + 1]],
                   rewards |-> AwardMembers(rw, ts[ti].members, TeamPoints, t),
                   result |-> "accepted" ]
            ELSE [ cleanups |-> [cs EXCEPT ![ci] =
                                   [@ EXCEPT !.verification_photos = photo_paths,
                                             !.cleanup_notes = notes,
                                             !.updated_at = t]],
                   teams |-> ts,
                   rewards |-> rw,
                   result |-> "rejected" ]

\* mark_completed (POST)
MarkCompletedRoute(cs, ts, rw, report_id, t) ==
    LET ci == FindCleanup(cs, report_id)
        same(result) == [cleanups |-> cs, teams |-> ts, rewards |-> rw, result |-> result]
    IN IF ci = 0 THEN same("not_found")
       ELSE IF cs[ci].assigned_team = Null THEN same("no_team")
       ELSE
         LET ti == FindTeam(ts, cs[ci].assigned_team)
         IN IF ti = 0 THEN same("team_not_found")
            ELSE [ cleanups |-> [cs EXCEPT ![ci] =
                                   [@ EXCEPT !.status = CLEANED,
                                             !.completion_date = t,
                                             !.updated_at = t]],
                   teams |-> [ts EXCEPT ![ti] =
                                   [@ EXCEPT !.status = "available",
                                             !.current_task = Null,
                                             !.last_activity = t,
                                             !.total_cleanups = @ + 1]],
                   rewards |-> AwardMembers(rw, ts[ti].members, TeamPoints, t),
                   result |-> "completed" ]

---------------------------------------------------------------------------
(* Inputs *)

\* random.randint(1000, 9999): only whether the drawn suffix equals one already
\* drawn in the same second matters.  FreshSuffix stands for every draw that
\* does not repeat an id of this second.
FreshSuffix(ids, second) ==
    CHOOSE k \in RandLo..(RandLo + Cardinality(ids)) :
        /\ MakeId(second, k) \notin ids
        /\ \A j \in RandLo..(k - 1) : MakeId(second, j) \in ids

\* The draws that repeat an id of this second
UsedSuffixes(ids, second) ==
    { k \in RandLo..(RandLo + Cardinality(ids)) : MakeId(second, k) \in ids }

\* Every draw: one that repeats an id, or one that does not
AnySuffixDraws(ids, second) == UsedSuffixes(ids, second) \cup { FreshSuffix(ids, second) }

\* An id no record has: its suffix is below every suffix randint(1000, 9999) draws
MissingId == MakeId(0, RandLo - 1)

\* The draws of Next: ids that do not collide (a collision needs two draws of the
\* same one of 9000 suffixes within one second)
SuffixDraws(ids, second) == { FreshSuffix(ids, second) }

TaskIds(cs) == { cs[i].report_id : i \in 1..Len(cs) }
TeamIds(ts) == { ts[i].team_id : i \in 1..Len(ts) }

\* Who submits a verification: a member of the team of TeamForms, and an outsider
VerifierInputs == { "u2", "u3" }

TeamForms ==
    { [name |-> "alpha", leader_email |-> "u1", members |-> <<"u2">>],
      [name |-> "solo", leader_email |-> "u3", members |-> <<>>] }

StatusInputs == { PENDING, IN_PROGRESS, CLEANED, VERIFIED }

UpdatePhotoInputs == { <<>> }

ManagerScores == { Null, 29, 30, 31 }

\* The unbounded counter total_cleanups is capped
WithinBounds(cs, ts) == \A i \in 1..Len(ts) : ts[i].total_cleanups <= MaxCleanups

---------------------------------------------------------------------------
(* Actions *)

Init ==
    /\ cleanups = <<>>
    /\ teams = <<>>
    /\ rewards = <<>>
    /\ now = 0
    /\ ret = Outcome("init", Null, "")
    /\ reqs = <<>>

\* routes create_team -> CleanupManager.create_team
CreateTeam(form, suffix) ==
    /\ LET member_list == TeamFormMembers(form.name, form.leader_email, form.members)
           team_id == MakeId(now, suffix)
       IN IF member_list = <<>>
          THEN /\ teams' = teams
               /\ ret' = Outcome("create_team", Null, "invalid")
          ELSE /\ teams' = CreateTeamRecord(teams, team_id, form.name,
                                            form.leader_email, member_list, now)
               /\ ret' = Outcome("create_team", Null, "created")
    /\ UNCHANGED <<cleanups, rewards, now, reqs>>

\* CleanupManager.create_cleanup_report, auto_assign_team included
CreateCleanupReport(report, suffix) ==
    /\ LET report_id == MakeId(now, suffix)
           saved == AppendTask(cleanups, NewCleanup(report_id, report, now))
           r == AutoAssign(saved, teams, report_id, now)
       IN /\ cleanups' = r.cleanups
          /\ teams' = r.teams
          /\ ret' = Outcome("create_cleanup_report", report_id,
                            IF r.team = Null THEN "pending" ELSE "assigned")
    /\ UNCHANGED <<rewards, now, reqs>>

\* CleanupManager.auto_assign_team called on its own
AutoAssignTeam(report_id) ==
    /\ LET r == AutoAssign(cleanups, teams, report_id, now)
       IN /\ cleanups' = r.cleanups
          /\ teams' = r.teams
          /\ ret' = Outcome("auto_assign_team", report_id,
                            IF r.team = Null THEN "none" ELSE "assigned")
    /\ UNCHANGED <<rewards, now, reqs>>

AssignTeam(report_id, team_id) ==
    /\ LET r == AssignTeamRoute(cleanups, teams, report_id, team_id, now)
       IN /\ cleanups' = r.cleanups
          /\ teams' = r.teams
          /\ ret' = Outcome("assign_team", report_id, r.result)
    /\ UNCHANGED <<rewards, now, reqs>>

UpdateCleanupStatus(report_id, status, notes, photos) ==
    /\ LET r == UpdateStatus(cleanups, teams, report_id, status, notes, photos, now)
       IN /\ WithinBounds(r.cleanups, r.teams)
          /\ cleanups' = r.cleanups
          /\ teams' = r.teams
          /\ rewards' = IF r.result = "updated" /\ status = VERIFIED
                        THEN AwardReporterPoints(
                                 rewards,
                                 cleanups[FindCleanup(cleanups, report_id)]
                                     .pollution_report.reporter_email,
                                 ReporterBonus)
                        ELSE rewards
          /\ ret' = Outcome("update_cleanup_status", report_id, r.result)
    /\ UNCHANGED <<now, reqs>>

SubmitCleanupVerification(report_id, team_email, notes, photos, cleanup_score) ==
    /\ LET r == SubmitVerification(cleanups, teams, report_id, team_email, notes,
                                   photos, cleanup_score, now)
       IN /\ WithinBounds(r.cleanups, r.teams)
          /\ cleanups' = r.cleanups
          /\ teams' = r.teams
          /\ ret' = Outcome("submit_cleanup_verification", report_id, r.result)
    /\ UNCHANGED <<rewards, now, reqs>>

VerifyCleanup(report_id, email, notes, scores) ==
    /\ LET r == VerifyCleanupRoute(cleanups, teams, rewards, report_id, email, notes,
                                   scores, now)
       IN /\ WithinBounds(r.cleanups, r.teams)
          /\ cleanups' = r.cleanups
          /\ teams' = r.teams
          /\ rewards' = r.rewards
          /\ ret' = Outcome("verify_cleanup", report_id, r.result)
    /\ UNCHANGED <<now, reqs>>

MarkCompleted(report_id) ==
    /\ LET r == MarkCompletedRoute(cleanups, teams, rewards, report_id, now)
       IN /\ WithinBounds(r.cleanups, r.teams)
          /\ cleanups' = r.cleanups
          /\ teams' = r.teams
          /\ rewards' = r.rewards
          /\ ret' = Outcome("mark_completed", report_id, r.result)
    /\ UNCHANGED <<now, reqs>>

Next ==
    \/ \E form \in TeamForms, suffix \in SuffixDraws(TeamIds(teams), now) :
          Len(teams) < MaxTeams /\ CreateTeam(form, suffix)
    \/ \E report \in ReportInputs, suffix \in SuffixDraws(TaskIds(cleanups), now) :
          Len(cleanups) < MaxTasks /\ CreateCleanupReport(report, suffix)
    \/ \E id \in TaskIds(cleanups) : AutoAssignTeam(id)
    \/ \E id \in TaskIds(cleanups),
          team_id \in TeamIds(teams) : AssignTeam(id, team_id)
    \/ \E id \in TaskIds(cleanups), status \in StatusInputs,
          notes \in NoteInputs, photos \in UpdatePhotoInputs :
          UpdateCleanupStatus(id, status, notes, photos)
    \/ \E id \in TaskIds(cleanups), email \in VerifierInputs,
          notes \in NoteInputs, photos \in UpdatePhotoInputs, score \in ManagerScores :
          SubmitCleanupVerification(id, email, notes, photos, score)
    \/ \E id \in TaskIds(cleanups), email \in VerifierInputs,
          notes \in NoteInputs, scores \in ScoreRuns :
          VerifyCleanup(id, email, notes, scores)
    \/ \E id \in TaskIds(cleanups) : MarkCompleted(id)

Spec == Init /\ [][Next]_vars

---------------------------------------------------------------------------
(* The team-matching policy on its own: auto_assign_team applied to a stored   *)
(* team pool read from teams.json, whatever ratings and counters it holds.     *)

Ratings == { 4, 5 }
CleanupCounts == { 10, 20, 100 }
TeamStatuses == { "available", "busy", "inactive" }

PoolTaskId == MakeId(0, RandLo)
OtherTaskId == MakeId(0, RandLo + 1)

\* The i-th team of a stored pool
PoolTeam(i, status, rating, count) ==
    [ NewTeam(MakeId(0, RandLo + i), "team", "u1", <<"u2", "u1">>, 0) EXCEPT
        !.status = status,
        !.current_task = IF status = "busy" THEN OtherTaskId ELSE Null,
        !.total_cleanups = count,
        !.rating = rating ]

Pools ==
    { [i \in 1..PoolSize |-> PoolTeam(i, f[i][1], f[i][2], f[i][3])] :
        f \in [1..PoolSize -> TeamStatuses \X Ratings \X CleanupCounts] }

InitAssign ==
    /\ cleanups = << NewCleanup(PoolTaskId, CHOOSE r \in ReportInputs : TRUE, 0) >>
    /\ teams \in Pools
    /\ rewards = <<>>
    /\ now = 0
    /\ ret = Outcome("init", Null, "")
    /\ reqs = <<>>

NextAssign == \E id \in TaskIds(cleanups) : AutoAssignTeam(id)

SpecAssign == InitAssign /\ [][NextAssign]_vars

---------------------------------------------------------------------------
(* Several tasks: the handlers on a collection of up to WideTasks tasks, with   *)
(* ids that may repeat within the second, ids that no record has, and member   *)
(* lists as the create_team form passes them on.  Notes and photo lists are    *)
(* left empty, one score stands for each side of the threshold, and the        *)
(* generic status update is used to close tasks.                               *)

\* members[] as typed into the form: the same address may be entered twice
WideTeamForms ==
    { [name |-> "alpha", leader_email |-> "u1", members |-> <<"u2">>],
      [name |-> "twin", leader_email |-> "u1", members |-> <<"u2", "u2">>] }

WideReports == ReportInputs \cup { [score |-> 40, reporter_email |-> "u2"] }

WideStatuses == { CLEANED }

WideScores == { 29, 31 }
WideScoreRuns == { <<18>>, <<30>> }

WideTaskIds == TaskIds(cleanups) \cup { MissingId }
WideTeamIds == TeamIds(teams) \cup { MissingId }

NextWide ==
    \/ \E form \in WideTeamForms, suffix \in SuffixDraws(TeamIds(teams), now) :
          Len(teams) < WideTeams /\ CreateTeam(form, suffix)
    \/ \E report \in WideReports, suffix \in AnySuffixDraws(TaskIds(cleanups), now) :
          Len(cleanups) < WideTasks /\ CreateCleanupReport(report, suffix)
    \/ \E id \in WideTaskIds : AutoAssignTeam(id)
    \/ \E id \in WideTaskIds, team_id \in WideTeamIds : AssignTeam(id, team_id)
    \/ \E id \in WideTaskIds, status \in WideStatuses :
          UpdateCleanupStatus(id, status, <<>>, <<>>)
    \/ \E id \in WideTaskIds, email \in VerifierInputs, score \in WideScores :
          SubmitCleanupVerification(id, email, <<>>, <<>>, score)
    \/ \E id \in WideTaskIds, email \in VerifierInputs, scores \in WideScoreRuns :
          VerifyCleanup(id, email, <<>>, scores)
    \/ \E id \in WideTaskIds : MarkCompleted(id)

SpecWide == Init /\ [][NextWide]_vars

---------------------------------------------------------------------------
(* The clock: the generic status update on one task while seconds pass.        *)

\* datetime.now() a second later
Tick ==
    /\ now < MaxClock
    /\ now' = now + 1
    /\ UNCHANGED <<cleanups, teams, rewards, ret, reqs>>

NextClock ==
    \/ \E form \in TeamForms, suffix \in SuffixDraws(TeamIds(teams), now) :
          Len(teams) < WideTeams /\ CreateTeam(form, suffix)
    \/ \E report \in ReportInputs, suffix \in SuffixDraws(TaskIds(cleanups), now) :
          Len(cleanups) < MaxTasks /\ CreateCleanupReport(report, suffix)
    \/ \E id \in TaskIds(cleanups), status \in StatusInputs, notes \in NoteInputs :
          UpdateCleanupStatus(id, status, notes, <<>>)
    \/ Tick

SpecClock == Init /\ [][NextClock]_vars

---------------------------------------------------------------------------
(* Requests in flight: MaxRequests uploads served at once, each calling        *)
(* create_cleanup_report.  A step is one load or one save of a whole           *)
(* collection, with the work the request does on its own copies before the    *)
(* next one; nothing orders the steps of different requests.                   *)

\* The suffix the k-th request draws: the draws differ
RequestSuffix(k) == RandLo + k - 1

\* A request that has not loaded anything yet
NewRequest(report) ==
    [ pc |-> "load_cleanups", report |-> report, report_id |-> Null,
      cs |-> <<>>, ts |-> <<>> ]

Requests == 1..Len(reqs)

\* create_cleanup_report: cleanups = self.load_cleanups()
CreateLoadCleanups(k) ==
    /\ reqs[k].pc = "load_cleanups"
    /\ reqs' = [reqs EXCEPT ![k] = [@ EXCEPT !.cs = cleanups, !.pc = "save_new"]]
    /\ UNCHANGED <<cleanups, teams, rewards, now, ret>>

\* create_cleanup_report: the id, the append and self.save_cleanups(cleanups)
CreateSaveNew(k) ==
    /\ reqs[k].pc = "save_new"
    /\ LET report_id == MakeId(now, RequestSuffix(k))
           saved == AppendTask(reqs[k].cs, NewCleanup(report_id, reqs[k].report, now))
       IN /\ cleanups' = saved
          /\ reqs' = [reqs EXCEPT ![k] = [@ EXCEPT !.report_id = report_id,
                                                   !.cs = saved,
                                                   !.pc = "auto_load_cleanups"]]
    /\ UNCHANGED <<teams, rewards, now, ret>>

\* auto_assign_team: cleanups = self.load_cleanups()
AutoLoadCleanups(k) ==
    /\ reqs[k].pc = "auto_load_cleanups"
    /\ reqs' = [reqs EXCEPT ![k] = [@ EXCEPT !.cs = cleanups, !.pc = "auto_load_teams"]]
    /\ UNCHANGED <<cleanups, teams, rewards, now, ret>>

\* auto_assign_team: teams = self.load_teams(), then the search, the choice and the
\* assignments on the request's own copies; it returns None before any save when
\* the task or an available team is missing
AutoLoadTeams(k) ==
    /\ reqs[k].pc = "auto_load_teams"
    /\ LET r == AutoAssign(reqs[k].cs, teams, reqs[k].report_id, now)
       IN IF r.team = Null
          THEN /\ reqs' = [reqs EXCEPT ![k] = [@ EXCEPT !.ts = teams, !.pc = "done"]]
               /\ ret' = Outcome("create_cleanup_report", reqs[k].report_id, "pending")
          ELSE /\ reqs' = [reqs EXCEPT ![k] = [@ EXCEPT !.cs = r.cleanups,
                                                        !.ts = r.teams,
                                                        !.pc = "auto_save_cleanups"]]
               /\ ret' = ret
    /\ UNCHANGED <<cleanups, teams, rewards, now>>

\* auto_assign_team: self.save_cleanups(cleanups)
AutoSaveCleanups(k) ==
    /\ reqs[k].pc = "auto_save_cleanups"
    /\ cleanups' = reqs[k].cs
    /\ reqs' = [reqs EXCEPT ![k] = [@ EXCEPT !.pc = "auto_save_teams"]]
    /\ UNCHANGED <<teams, rewards, now, ret>>

\* auto_assign_team: self.save_teams(teams), and the return
AutoSaveTeams(k) ==
    /\ reqs[k].pc = "auto_save_teams"
    /\ teams' = reqs[k].ts
    /\ reqs' = [reqs EXCEPT ![k] = [@ EXCEPT !.pc = "done"]]
    /\ ret' = Outcome("create_cleanup_report", reqs[k].report_id, "assigned")
    /\ UNCHANGED <<cleanups, rewards, now>>

\* The stored pool when the uploads arrive: no team, or the one team "alpha"
\* as create_team saved it
StoredPools ==
    { <<>>, CreateTeamRecord(<<>>, MakeId(0, RandLo), "alpha", "u1", <<"u2", "u1">>, 0) }

InitRequests ==
    /\ cleanups = <<>>
    /\ teams \in StoredPools
    /\ rewards = <<>>
    /\ now = 0
    /\ ret = Outcome("init", Null, "")
    /\ reqs \in [1..MaxRequests -> { NewRequest(report) : report \in ReportInputs }]

NextRequests ==
    \/ \E k \in Requests : CreateLoadCleanups(k)
    \/ \E k \in Requests : CreateSaveNew(k)
    \/ \E k \in Requests : AutoLoadCleanups(k)
    \/ \E k \in Requests : AutoLoadTeams(k)
    \/ \E k \in Requests : AutoSaveCleanups(k)
    \/ \E k \in Requests : AutoSaveTeams(k)

SpecRequests == InitRequests /\ [][NextRequests]_vars

---------------------------------------------------------------------------
(* Storage form: to_dict and from_dict of the three record classes, applied to  *)
(* one record that was built at second 0 and is read back when the clock shows *)
(* MaxClock.  A dict is a function on its keys.                                *)

\* data.get(key, default)
DictGet(data, key, default) == IF key \in DOMAIN data THEN data[key] ELSE default

\* to_dict with the photo list left out
CleanupReportToDictSansPhotos(r) ==
    [ report_id |-> r.report_id,
      pollution_report |-> r.pollution_report,
      status |-> r.status,
      assigned_team |-> r.assigned_team,
      assigned_date |-> r.assigned_date,
      start_date |-> r.start_date,
      completion_date |-> r.completion_date,
      cleanup_notes |-> r.cleanup_notes,
      cleanup_points |-> r.cleanup_points,
      created_at |-> r.created_at,
      updated_at |-> r.updated_at ]

\* CleanupReport.to_dict
CleanupReportToDict(r) ==
    [ report_id |-> r.report_id,
      pollution_report |-> r.pollution_report,
      status |-> r.status,
      assigned_team |-> r.assigned_team,
      assigned_date |-> r.assigned_date,
      start_date |-> r.start_date,
      completion_date |-> r.completion_date,
      cleanup_notes |-> r.cleanup_notes,
      verification_photos |-> r.verification_photos,
      cleanup_points |-> r.cleanup_points,
      created_at |-> r.created_at,
      updated_at |-> r.updated_at ]

\* CleanupReport.from_dict: the constructor at time t, then the stored fields
CleanupReportFromDict(data, t) ==
    [ NewCleanup(data["report_id"], data["pollution_report"], t) EXCEPT
        !.status = data["status"],
        !.assigned_team = DictGet(data, "assigned_team", Null),
        !.assigned_date = DictGet(data, "assigned_date", Null),
        !.start_date = DictGet(data, "start_date", Null),
        !.completion_date = DictGet(data, "completion_date", Null),
        !.cleanup_notes = DictGet(data, "cleanup_notes", <<>>),
        !.verification_photos = DictGet(data, "verification_photos", <<>>),
        !.cleanup_points = DictGet(data, "cleanup_points", 0),
        !.created_at = DictGet(data, "created_at", Null),
        !.updated_at = DictGet(data, "updated_at", Null) ]

\* CleanupTeam.to_dict
CleanupTeamToDict(r) ==
    [ team_id |-> r.team_id,
      name |-> r.name,
      leader_email |-> r.leader_email,
      members |-> r.members,
      status |-> r.status,
      current_task |-> r.current_task,
      total_cleanups |-> r.total_cleanups,
      total_points |-> r.total_points,
      rating |-> r.rating,
      created_at |-> r.created_at,
      last_activity |-> r.last_activity ]

\* CleanupTeam.from_dict
CleanupTeamFromDict(data, t) ==
    [ NewTeam(data["team_id"], data["name"], data["leader_email"],
              DictGet(data, "members", <<>>), t) EXCEPT
        !.status = DictGet(data, "status", "available"),
        !.current_task = DictGet(data, "current_task", Null),
        !.total_cleanups = DictGet(data, "total_cleanups", 0),
        !.total_points = DictGet(data, "total_points", 0),
        !.rating = DictGet(data, "rating", DefaultRating),
        !.created_at = DictGet(data, "created_at", Null),
        !.last_activity = DictGet(data, "last_activity", Null) ]

\* UserRewards.to_dict
UserRewardsToDict(r) ==
    [ email |-> r.email,
      badges |-> r.badges,
      total_points |-> r.total_points,
      reporter_points |-> r.reporter_points,
      cleanup_points |-> r.cleanup_points,
      level |-> r.level,
      title |-> r.title,
      achievements |-> r.achievements,
      created_at |-> r.created_at,
      last_updated |-> r.last_updated ]

\* UserRewards.from_dict
UserRewardsFromDict(data, t) ==
    [ NewUserRewards(data["email"], t) EXCEPT
        !.badges = DictGet(data, "badges", <<>>),
        !.total_points = DictGet(data, "total_points", 0),
        !.reporter_points = DictGet(data, "reporter_points", 0),
        !.cleanup_points = DictGet(data, "cleanup_points", 0),
        !.level = DictGet(data, "level", 1),
        !.title = DictGet(data, "title", "Beach Guardian"),
        !.achievements = DictGet(data, "achievements", <<>>),
        !.created_at = DictGet(data, "created_at", Null),
        !.last_updated = DictGet(data, "last_updated", Null) ]

\* CleanupReport values: a task at any point of its life
TaskValues ==
    { [ NewCleanup(PoolTaskId, report, 0) EXCEPT
          !.status = status,
          !.assigned_team = team,
          !.assigned_date = IF team = Null THEN Null ELSE 0,
          !.start_date = dates[1],
          !.completion_date = dates[2],
          !.cleanup_notes = notes,
          !.verification_photos = PhotoPaths(photos),
          !.cleanup_points = IF dates[2] = Null THEN 0 ELSE CalculateCleanupPoints([pollution_report |-> report]) ] :
        report \in ReportInputs, status \in StatusInputs, team \in { Null, MakeId(0, RandLo) },
        dates \in { Null, 0 } \X { Null, 0 }, notes \in NoteInputs, photos \in 0..2 }

\* CleanupTeam values
TeamValues ==
    { [ PoolTeam(1, status, rating, count) EXCEPT !.total_points = count * BasePoints ] :
        status \in TeamStatuses, rating \in Ratings, count \in CleanupCounts }

\* Amounts passed to award_points
AwardInputs == { 10, 25, 100 }

\* UserRewards values: a record after its first award
UserValues ==
    { AwardPoints(<<>>, email, points, category, 0)[1] :
        email \in { "u1", "u2" }, points \in AwardInputs,
        category \in { "reporter", "cleanup" } }

InitStorage ==
    /\ \/ cleanups \in { <<r>> : r \in TaskValues } /\ teams = <<>> /\ rewards = <<>>
       \/ cleanups = <<>> /\ teams \in { <<r>> : r \in TeamValues } /\ rewards = <<>>
       \/ cleanups = <<>> /\ teams = <<>> /\ rewards \in { <<r>> : r \in UserValues }
    /\ now = MaxClock
    /\ ret = Outcome("init", Null, "")
    /\ reqs = <<>>

\* CleanupReport.from_dict(r.to_dict())
RoundTripCleanup ==
    /\ cleanups # <<>>
    /\ cleanups' = << CleanupReportFromDict(CleanupReportToDict(cleanups[1]), now) >>
    /\ ret' = Outcome("round_trip", cleanups[1].report_id, "cleanup")
    /\ UNCHANGED <<teams, rewards, now, reqs>>

\* CleanupTeam.from_dict(r.to_dict())
RoundTripTeam ==
    /\ teams # <<>>
    /\ teams' = << CleanupTeamFromDict(CleanupTeamToDict(teams[1]), now) >>
    /\ ret' = Outcome("round_trip", teams[1].team_id, "team")
    /\ UNCHANGED <<cleanups, rewards, now, reqs>>

\* UserRewards.from_dict(r.to_dict())
RoundTripUser ==
    /\ rewards # <<>>
    /\ rewards' = << UserRewardsFromDict(UserRewardsToDict(rewards[1]), now) >>
    /\ ret' = Outcome("round_trip", Null, "user")
    /\ UNCHANGED <<cleanups, teams, now, reqs>>

NextStorage == RoundTripCleanup \/ RoundTripTeam \/ RoundTripUser

SpecStorage == InitStorage /\ [][NextStorage]_vars

---------------------------------------------------------------------------
(* Pollution reports: src/models/report.py.  A Report is built at an earlier   *)
(* second and taken through to_dict and from_dict by a request when the clock *)
(* shows MaxClock.                                                            *)

\* Report.__init__
NewReport(filename, latitude, longitude, location_name, score, analysis, reporter_name, reporter_email, points, t) ==
    [ filename |-> filename,
      latitude |-> latitude,
      longitude |-> longitude,
      location_name |-> location_name,
      score |-> score,
      analysis |-> analysis,
      reporter_name |-> reporter_name,
      reporter_email |-> reporter_email,
      points |-> points,
      timestamp |-> t ]

\* Report.to_dict
ReportToDict(r) ==
    [ filename |-> r.filename,
      latitude |-> r.latitude,
      longitude |-> r.longitude,
      location_name |-> r.location_name,
      score |-> r.score,
      analysis |-> r.analysis,
      reporter_name |-> r.reporter_name,
      reporter_email |-> r.reporter_email,
      points |-> r.points,
      timestamp |-> r.timestamp ]

\* Report.from_dict: the constructor at time t on the stored fields; the
\* constructor takes no timestamp
ReportFromDict(data, t) ==
    NewReport(DictGet(data, "filename", ""),
              DictGet(data, "latitude", ""),
              DictGet(data, "longitude", ""),
              DictGet(data, "location_name", ""),
              DictGet(data, "score", 0),
              DictGet(data, "analysis", ""),
              DictGet(data, "reporter_name", ""),
              DictGet(data, "reporter_email", ""),
              DictGet(data, "points", 0),
              t)

\* Seconds before the one the clock shows
EarlierSeconds == 0..(MaxClock - 1)

ReportScores == { 0, 29, 82 }
ReportPoints == { 5, 10, 20 }

\* Report values
ReportValues ==
    { NewReport(filename, "12.97", "77.59", location_name, score, "analysis",
                "name", reporter_email, points, t) :
        filename \in { "a.jpg", "b.jpg" }, location_name \in { "", "beach" },
        score \in ReportScores, reporter_email \in { "u1", "u2", "u3" },
        points \in ReportPoints, t \in EarlierSeconds }

\* A request that holds a Report and has not converted it yet
ReportRequest(r) ==
    [ pc |-> "round_trip", report |-> r, report_id |-> Null, cs |-> <<>>, ts |-> <<>> ]

InitReports ==
    /\ cleanups = <<>>
    /\ teams = <<>>
    /\ rewards = <<>>
    /\ now = MaxClock
    /\ ret = Outcome("init", Null, "")
    /\ reqs \in { << ReportRequest(r) >> : r \in ReportValues }

\* Report.from_dict(r.to_dict())
RoundTripReport(k) ==
    /\ reqs[k].pc = "round_trip"
    /\ reqs' = [reqs EXCEPT ![k] =
                  [@ EXCEPT !.report = ReportFromDict(ReportToDict(reqs[k].report), now),
                            !.pc = "done"]]
    /\ ret' = Outcome("round_trip", Null, "report")
    /\ UNCHANGED <<cleanups, teams, rewards, now>>

NextReports == \E k \in Requests : RoundTripReport(k)

SpecReports == InitReports /\ [][NextReports]_vars

---------------------------------------------------------------------------
(* The rewards ledger on its own: point awards to one user as the upload and   *)
(* the completion handlers make them, until the total passes level 10, and    *)
(* the statistics pages of two users.                                          *)

MaxPoints == 1100

\* award_points(email, points, "reporter") with calculate_points(82), and
\* award_points(member_email, 25, "cleanup")
AwardCalls == { <<20, "reporter">>, <<TeamPoints, "cleanup">> }

AwardedEmails == { "u1" }
StatsEmails == { "u1", "u2" }

\* user["total_points"] of a user, 0 for a user with no record
TotalPointsOf(rw, email) ==
    IF FindUser(rw, email) = 0 THEN 0 ELSE rw[FindUser(rw, email)].total_points

\* RewardsManager.award_points
AwardPointsCall(email, points, category) ==
    /\ rewards' = AwardPoints(rewards, email, points, category, now)
    /\ ret' = Outcome("award_points", Null, email)
    /\ UNCHANGED <<cleanups, teams, now, reqs>>

\* RewardsManager.get_user_stats (routes user_rewards and dashboard)
GetUserStats(email) ==
    /\ rewards' = GetOrCreateUser(rewards, email, now)
    /\ ret' = Outcome("get_user_stats", Null, email)
    /\ UNCHANGED <<cleanups, teams, now, reqs>>

NextRewards ==
    \/ \E email \in AwardedEmails, call \in AwardCalls :
          /\ TotalPointsOf(rewards, email) + call[1] <= MaxPoints
          /\ AwardPointsCall(email, call[1], call[2])
    \/ \E email \in StatsEmails : GetUserStats(email)

SpecRewards == Init /\ [][NextRewards]_vars

---------------------------------------------------------------------------
(* The generic status update on tasks of every severity: one task, created     *)
(* from a report at either end of the score range or inside it, assigned by    *)
(* hand or automatically, and moved between the statuses.                      *)

\* Reports by their pollution score, 0 to 100
ScoreReports == { [score |-> s, reporter_email |-> "u3"] : s \in { 0, 9, 82, 100 } }

NextStatus ==
    \/ \E form \in TeamForms, suffix \in SuffixDraws(TeamIds(teams), now) :
          Len(teams) < MaxTeams /\ CreateTeam(form, suffix)
    \/ \E report \in ScoreReports, suffix \in SuffixDraws(TaskIds(cleanups), now) :
          Len(cleanups) < MaxTasks /\ CreateCleanupReport(report, suffix)
    \/ \E id \in TaskIds(cleanups), team_id \in TeamIds(teams) : AssignTeam(id, team_id)
    \/ \E id \in TaskIds(cleanups), status \in StatusInputs,
          notes \in NoteInputs, photos \in UpdatePhotoInputs :
          UpdateCleanupStatus(id, status, notes, photos)

SpecStatus == Init /\ [][NextStatus]_vars

---------------------------------------------------------------------------
(* The verification scorer: src/utils/analysis.py, and the verify_cleanup      *)
(* route with the scorer in it.  A request carries, per uploaded photo, what   *)
(* the upstream model answers: nothing (kind "none": the service is not        *)
(* available, the image does not load, or the call raises), a JSON object      *)
(* (kind "json", score: the value under "score", Null when the key is missing) *)
(* or text that is not JSON (kind "text", score: the first run of digits in    *)
(* the text, Null when there is none).  JSON scores are integers here.         *)

NoResponse == [kind |-> "none", score |-> Null]
JsonResponse(score) == [kind |-> "json", score |-> score]
TextResponse(score) == [kind |-> "text", score |-> score]

\* The fallback taken for the default of the parser
FallbackAsDefaultAnalysis == [score |-> DefaultScore]

\* _fallback_cleanup_analysis: the key of the result the route reads
FallbackCleanupAnalysis == [score |-> FallbackScore]

\* _parse_cleanup_response
ParseCleanupResponse(response) ==
    [ score |-> IF response.score = Null THEN DefaultScore
                ELSE IF response.score > MaxScore THEN MaxScore
                ELSE response.score ]

\* analyze_cleanup_verification
AnalyzeCleanupVerification(response) ==
    IF response.kind = "none" THEN FallbackCleanupAnalysis
    ELSE IF response.kind = "json"
    THEN [ score |-> IF response.score = Null THEN DefaultScore ELSE response.score ]
    ELSE ParseCleanupResponse(response)

\* analysis_results, as the scores the route reads from them
AnalysisScores(responses) ==
    [ i \in 1..Len(responses) |-> AnalyzeCleanupVerification(responses[i]).score ]

UpstreamResponses ==
    { NoResponse, JsonResponse(Null), TextResponse(Null), TextResponse(18),
      TextResponse(250) } \cup { JsonResponse(s) : s \in { -5, 18, 30, 150 } }

\* The answers to the photos of one upload
UploadInputs ==
    { <<>>, <<NoResponse, NoResponse>>, <<JsonResponse(18), TextResponse(250)>> }
        \cup { <<r>> : r \in UpstreamResponses }

\* A POST of verify_cleanup that has not been served yet
NewUpload(responses) == [pc |-> "upload", responses |-> responses, scores |-> <<>>]

\* verify_cleanup (POST) with analyze_cleanup_verification called per photo; the
\* scorer runs only when the form has passed the checks before it
VerifyCleanupUpload(k, report_id, email, notes) ==
    /\ reqs[k].pc = "upload"
    /\ LET scores == AnalysisScores(reqs[k].responses)
           r == VerifyCleanupRoute(cleanups, teams, rewards, report_id, email, notes,
                                   scores, now)
       IN /\ WithinBounds(r.cleanups, r.teams)
          /\ cleanups' = r.cleanups
          /\ teams' = r.teams
          /\ rewards' = r.rewards
          /\ ret' = Outcome("verify_cleanup", report_id, r.result)
          /\ reqs' = [reqs EXCEPT ![k] =
                        [@ EXCEPT !.scores = IF r.result \in {"accepted", "rejected"}
                                             THEN scores ELSE <<>>,
                                  !.pc = "done"]]
    /\ UNCHANGED now

InitScorer ==
    /\ cleanups = <<>>
    /\ teams = <<>>
    /\ rewards = <<>>
    /\ now = 0
    /\ ret = Outcome("init", Null, "")
    /\ reqs \in [1..MaxRequests -> { NewUpload(responses) : responses \in UploadInputs }]

NextScorer ==
    \/ \E form \in TeamForms, suffix \in SuffixDraws(TeamIds(teams), now) :
          Len(teams) < WideTeams /\ CreateTeam(form, suffix)
    \/ \E report \in ReportInputs, suffix \in SuffixDraws(TaskIds(cleanups), now) :
          Len(cleanups) < MaxTasks /\ CreateCleanupReport(report, suffix)
    \/ \E k \in Requests, id \in TaskIds(cleanups), email \in VerifierInputs :
          VerifyCleanupUpload(k, id, email, <<>>)
    \/ \E id \in TaskIds(cleanups) : MarkCompleted(id)
    \/ \E id \in TaskIds(cleanups) : UpdateCleanupStatus(id, CLEANED, <<>>, <<>>)

SpecScorer == InitScorer /\ [][NextScorer]_vars

---------------------------------------------------------------------------
(* Completions repeated: the three handlers that complete a task, called again *)
(* on a task they have completed.  The counter total_cleanups is capped at     *)
(* MaxRepeats here, so that a team can be counted a second completion.         *)

WithinRepeats(ts) == \A i \in 1..Len(ts) : ts[i].total_cleanups <= MaxRepeats

\* mark_completed (POST), once more
RepeatMarkCompleted(report_id) ==
    /\ LET r == MarkCompletedRoute(cleanups, teams, rewards, report_id, now)
       IN /\ WithinRepeats(r.teams)
          /\ cleanups' = r.cleanups
          /\ teams' = r.teams
          /\ rewards' = r.rewards
          /\ ret' = Outcome("mark_completed", report_id, r.result)
    /\ UNCHANGED <<now, reqs>>

\* verify_cleanup (POST), once more
RepeatVerifyCleanup(report_id, email, notes, scores) ==
    /\ LET r == VerifyCleanupRoute(cleanups, teams, rewards, report_id, email, notes,
                                   scores, now)
       IN /\ WithinRepeats(r.teams)
          /\ cleanups' = r.cleanups
          /\ teams' = r.teams
          /\ rewards' = r.rewards
          /\ ret' = Outcome("verify_cleanup", report_id, r.result)
    /\ UNCHANGED <<now, reqs>>

\* CleanupManager.update_cleanup_status to cleaned, once more
RepeatUpdateToCleaned(report_id, notes, photos) ==
    /\ LET r == UpdateStatus(cleanups, teams, report_id, CLEANED, notes, photos, now)
       IN /\ WithinRepeats(r.teams)
          /\ cleanups' = r.cleanups
          /\ teams' = r.teams
          /\ ret' = Outcome("update_cleanup_status", report_id, r.result)
    /\ UNCHANGED <<rewards, now, reqs>>

NextRepeat ==
    \/ \E form \in TeamForms, suffix \in SuffixDraws(TeamIds(teams), now) :
          Len(teams) < WideTeams /\ CreateTeam(form, suffix)
    \/ \E report \in ReportInputs, suffix \in SuffixDraws(TaskIds(cleanups), now) :
          Len(cleanups) < WideTasks /\ CreateCleanupReport(report, suffix)
    \/ \E id \in TaskIds(cleanups) : RepeatMarkCompleted(id)
    \/ \E id \in TaskIds(cleanups), email \in VerifierInputs, notes \in NoteInputs,
          scores \in WideScoreRuns : RepeatVerifyCleanup(id, email, notes, scores)
    \/ \E id \in TaskIds(cleanups), notes \in NoteInputs :
          RepeatUpdateToCleaned(id, notes, <<>>)
    \/ Tick

SpecRepeat == Init /\ [][NextRepeat]_vars

---------------------------------------------------------------------------
(* Statistics: get_cleanup_stats over tasks whose status came from the form of *)
(* the update-status route, which stores any non-empty string.                 *)

\* CleanupManager.get_cleanup_stats
GetCleanupStats(cs, ts) ==
    LET tasks(status) == Cardinality({ c \in 1..Len(cs) : cs[c].status = status })
        crews(status) == Cardinality({ i \in 1..Len(ts) : ts[i].status = status })
    IN [ total_reports |-> Len(cs),
         pending |-> tasks(PENDING),
         in_progress |-> tasks(IN_PROGRESS),
         cleaned |-> tasks(CLEANED),
         verified |-> tasks(VERIFIED),
         total_teams |-> Len(ts),
         available_teams |-> crews("available"),
         busy_teams |-> crews("busy") ]

\* request.form.get("status"): one of the four statuses, nothing, or another string
FormStatuses == StatusInputs \cup { "", "archived" }

\* update_status (POST)
UpdateStatusPost(report_id, status, notes) ==
    IF status = ""
    THEN /\ ret' = Outcome("update_status", report_id, "status_required")
         /\ UNCHANGED <<cleanups, teams, rewards, now, reqs>>
    ELSE UpdateCleanupStatus(report_id, status, notes, <<>>)

NextStats ==
    \/ \E form \in TeamForms, suffix \in SuffixDraws(TeamIds(teams), now) :
          Len(teams) < MaxTeams /\ CreateTeam(form, suffix)
    \/ \E report \in ReportInputs, suffix \in SuffixDraws(TaskIds(cleanups), now) :
          Len(cleanups) < MaxTasks /\ CreateCleanupReport(report, suffix)
    \/ \E id \in TaskIds(cleanups), team_id \in TeamIds(teams) : AssignTeam(id, team_id)
    \/ \E id \in TaskIds(cleanups), status \in FormStatuses, notes \in NoteInputs :
          UpdateStatusPost(id, status, notes)

SpecStats == Init /\ [][NextStats]_vars

---------------------------------------------------------------------------
(* Properties *)

TaskIdx == 1..Len(cleanups)
TeamIdx == 1..Len(teams)

\* C1: every team is busy iff its current_task is set, and the task a busy team
\* names has that team as its assigned_team.
C1_BusyTeamOwnsItsTask ==
    \A i \in TeamIdx :
        /\ teams[i].status = "busy" <=> teams[i].current_task # Null
        /\ teams[i].status = "busy" =>
              \E c \in TaskIdx :
                  /\ cleanups[c].report_id = teams[i].current_task
                  /\ cleanups[c].assigned_team = teams[i].team_id

\* C2: a team whose current_task is set has exactly one task that is assigned
\* to it and in progress.
C2_OneTaskInProgressPerBusyTeam ==
    \A i \in TeamIdx :
        teams[i].current_task # Null =>
            Cardinality({ c \in TaskIdx :
                            /\ cleanups[c].assigned_team = teams[i].team_id
                            /\ cleanups[c].status = IN_PROGRESS }) = 1

\* C3: a task that is in progress, cleaned or verified has an assigned team.
C3_StartedTaskHasTeam ==
    \A c \in TaskIdx :
        cleanups[c].status \in {IN_PROGRESS, CLEANED, VERIFIED} =>
            cleanups[c].assigned_team # Null

\* C4: a task is cleaned or verified iff its completion_date is set.
C4_CompletionDateIffClosed ==
    \A c \in TaskIdx :
        cleanups[c].status \in {CLEANED, VERIFIED} <=> cleanups[c].completion_date # Null

\* C5: auto_assign_team on a pool with an available team makes busy, on the given
\* task, a team that was available and whose (rating, total_cleanups) is
\* lexicographically greatest among the available ones, and touches no other team;
\* when the available teams are A(5,10), B(5,20), C(4,100) it takes B.
C5_AutoAssignTakesBestAvailable ==
    [][ \A id \in TaskIds(cleanups) :
          (AutoAssignTeam(id) /\ \E k \in TeamIdx : teams[k].status = "available") =>
            \E i \in TeamIdx :
              /\ teams[i].status = "available"
              /\ \A j \in TeamIdx :
                    teams[j].status = "available" =>
                      \/ teams[j].rating < teams[i].rating
                      \/ /\ teams[j].rating = teams[i].rating
                         /\ teams[j].total_cleanups <= teams[i].total_cleanups
              /\ teams'[i].status = "busy"
              /\ teams'[i].current_task = id
              /\ \A j \in TeamIdx \ {i} : teams'[j] = teams[j]
              /\ \E c \in TaskIdx :
                    /\ cleanups'[c].report_id = id
                    /\ cleanups'[c].status = IN_PROGRESS
                    /\ cleanups'[c].assigned_team = teams[i].team_id
              /\ ret'.result = "assigned"
              /\ { <<teams[j].rating, teams[j].total_cleanups>> :
                      j \in { k \in TeamIdx : teams[k].status = "available" } }
                     = { <<5, 10>>, <<5, 20>>, <<4, 100>> }
                   => teams[i].rating = 5 /\ teams[i].total_cleanups = 20
      ]_vars

\* C5 happens: from the pool A(5,10), B(5,20), C(4,100), all available, B is busy
\* on the task and A and C are still available.
C5_Witness ==
    /\ ret.op = "auto_assign_team"
    /\ ret.result = "assigned"
    /\ Len(teams) >= 3
    /\ teams[1].status = "available" /\ teams[1].rating = 5
    /\ teams[1].total_cleanups = 10
    /\ teams[2].status = "busy" /\ teams[2].rating = 5
    /\ teams[2].total_cleanups = 20 /\ teams[2].current_task = ret.id
    /\ teams[3].status = "available" /\ teams[3].rating = 4
    /\ teams[3].total_cleanups = 100
    /\ \A j \in TeamIdx : j > 3 => teams[j].status # "available"
    /\ cleanups[1].assigned_team = teams[2].team_id

\* The index of the first task with this id, and of the team that task names
TaskAt(id) == CHOOSE c \in TaskIdx :
                 /\ cleanups[c].report_id = id
                 /\ \A d \in TaskIdx : d < c => cleanups[d].report_id # id
TeamOfTask(id) ==
    IF \E i \in TeamIdx : teams[i].team_id = cleanups[TaskAt(id)].assigned_team
    THEN CHOOSE i \in TeamIdx :
            /\ teams[i].team_id = cleanups[TaskAt(id)].assigned_team
            /\ \A j \in TeamIdx : j < i =>
                  teams[j].team_id # cleanups[TaskAt(id)].assigned_team
    ELSE 0

Members(i) == { teams[i].members[k] : k \in 1..Len(teams[i].members) }

\* The step is a verification, by the route or by the manager
VerificationStep == ret'.op \in {"verify_cleanup", "submit_cleanup_verification"}

\* An in-progress task whose assigned team is busy on it
WorkedOn(id) ==
    /\ cleanups[TaskAt(id)].status = IN_PROGRESS
    /\ TeamOfTask(id) # 0
    /\ teams[TeamOfTask(id)].status = "busy"
    /\ teams[TeamOfTask(id)].current_task = id

\* What a verification of task id leaves behind, by whether the mean is below 30
C6_After(id, below) ==
    IF below
    THEN /\ cleanups'[TaskAt(id)].status = CLEANED
         /\ teams'[TeamOfTask(id)].status = "available"
         /\ teams'[TeamOfTask(id)].current_task = Null
    ELSE /\ cleanups'[TaskAt(id)].status = IN_PROGRESS
         /\ teams'[TeamOfTask(id)].status = "busy"
         /\ teams'[TeamOfTask(id)].current_task = id

\* C6: a verification of an in-progress task by a member of its team is decided by
\* the mean score alone: below 30 the task is cleaned and the team available with no
\* current task, at 30 or more the task stays in progress and the team busy on it.
C6_MeanDecidesVerification ==
    [][ VerificationStep =>
        \A id \in TaskIds(cleanups), email \in VerifierInputs, notes \in NoteInputs :
          (WorkedOn(id) /\ email \in Members(TeamOfTask(id))) =>
            /\ \A scores \in ScoreRuns \ {<<>>} :
                  VerifyCleanup(id, email, notes, scores) =>
                      C6_After(id, SumSeq(scores) < 30 * Len(scores))
            /\ \A photos \in UpdatePhotoInputs, score \in ManagerScores \ {Null} :
                  SubmitCleanupVerification(id, email, notes, photos, score) =>
                      C6_After(id, score < 30)
      ]_vars

\* C7: after a rejected verification the task's notes end with a rejection
\* annotation that carries a numeric score.
C7_RejectionAnnotated ==
    [][ VerificationStep =>
        \A id \in TaskIds(cleanups), email \in VerifierInputs, notes \in NoteInputs :
          (\/ \E scores \in ScoreRuns : VerifyCleanup(id, email, notes, scores)
           \/ \E photos \in UpdatePhotoInputs, score \in ManagerScores :
                 SubmitCleanupVerification(id, email, notes, photos, score))
          /\ ret'.result = "rejected"
          => LET n == cleanups'[TaskAt(id)].cleanup_notes
             IN Len(n) > 0 /\ n[Len(n)].score # Null
      ]_vars

\* C8: a verification by someone who is not a member of the task's assigned team
\* is answered "unauthorized" and changes no task, team or rewards record.
C8_NonMemberChangesNothing ==
    [][ VerificationStep =>
        \A id \in TaskIds(cleanups), email \in VerifierInputs, notes \in NoteInputs :
          ( /\ cleanups[TaskAt(id)].assigned_team # Null
            /\ TeamOfTask(id) # 0
            /\ email \notin Members(TeamOfTask(id))
            /\ \/ \E scores \in ScoreRuns : VerifyCleanup(id, email, notes, scores)
               \/ \E photos \in UpdatePhotoInputs, score \in ManagerScores :
                     SubmitCleanupVerification(id, email, notes, photos, score) )
          => /\ ret'.result = "unauthorized"
             /\ UNCHANGED <<cleanups, teams, rewards>>
      ]_vars

\* C8 happens: an outsider's verification of a task a team is working on has
\* just been turned down.
C8_Witness ==
    /\ ret.op = "verify_cleanup"
    /\ ret.result = "unauthorized"
    /\ ret.id \in TaskIds(cleanups)
    /\ WorkedOn(ret.id)
    /\ "u3" \notin Members(TeamOfTask(ret.id))

\* C9: a verification of a task with no assigned team fails and changes no task,
\* team or rewards record.
C9_NoTeamChangesNothing ==
    [][ VerificationStep =>
        \A id \in TaskIds(cleanups), email \in VerifierInputs, notes \in NoteInputs :
          ( /\ cleanups[TaskAt(id)].assigned_team = Null
            /\ \/ \E scores \in ScoreRuns : VerifyCleanup(id, email, notes, scores)
               \/ \E photos \in UpdatePhotoInputs, score \in ManagerScores :
                     SubmitCleanupVerification(id, email, notes, photos, score) )
          => /\ ret'.result \notin {"accepted", "submitted", "rejected"}
             /\ UNCHANGED <<cleanups, teams, rewards>>
      ]_vars

\* C10: a task created from a report scoring 82 while exactly one team is available
\* is in progress with that team, the team busy on it; a member's verification with
\* one photo scoring 18 then leaves the task cleaned with cleanup_points 33 and the
\* team available with one more cleanup.
C10_EndToEnd ==
    [][ /\ \A report \in ReportInputs, suffix \in SuffixDraws(TaskIds(cleanups), now) :
             ( /\ report.score = 82
               /\ Cardinality({ i \in TeamIdx : teams[i].status = "available" }) = 1
               /\ CreateCleanupReport(report, suffix) )
             => \E i \in TeamIdx :
                   /\ teams[i].status = "available"
                   /\ teams'[i].status = "busy"
                   /\ teams'[i].current_task = MakeId(now, suffix)
                   /\ cleanups'[Len(cleanups')].status = IN_PROGRESS
                   /\ cleanups'[Len(cleanups')].assigned_team = teams[i].team_id
        /\ \A id \in TaskIds(cleanups), email \in VerifierInputs, notes \in NoteInputs :
             ( /\ cleanups[TaskAt(id)].pollution_report.score = 82
               /\ WorkedOn(id)
               /\ email \in Members(TeamOfTask(id))
               /\ VerifyCleanup(id, email, notes, <<18>>) )
             => /\ cleanups'[TaskAt(id)].status = CLEANED
                /\ cleanups'[TaskAt(id)].cleanup_points = 33
                /\ teams'[TeamOfTask(id)].status = "available"
                /\ teams'[TeamOfTask(id)].total_cleanups
                      = teams[TeamOfTask(id)].total_cleanups + 1
      ]_vars

\* A task or team record without the timestamp of its last write
SansWriteTime(record) ==
    IF "updated_at" \in DOMAIN record
    THEN [record EXCEPT !.updated_at = Null]
    ELSE [record EXCEPT !.last_activity = Null]

\* C11: update_cleanup_status called again on the same task with the same status
\* and empty notes, right after a call that did the same, leaves every task and
\* team field as the first call left it (the time of the last write aside): the
\* completion_date is not replaced and the team counters do not move again.
C11_SecondUpdateChangesNothing ==
    [][ \A id \in TaskIds(cleanups), status \in StatusInputs :
          ( /\ ret = Outcome("update_cleanup_status", id, "updated")
            /\ cleanups[TaskAt(id)].status = status
            /\ cleanups[TaskAt(id)].cleanup_notes = <<>>
            /\ UpdateCleanupStatus(id, status, <<>>, <<>>) )
          => /\ \A c \in TaskIdx : SansWriteTime(cleanups'[c]) = SansWriteTime(cleanups[c])
             /\ \A i \in TeamIdx : SansWriteTime(teams'[i]) = SansWriteTime(teams[i])
      ]_vars

AllDone == \A k \in Requests : reqs[k].pc = "done"

\* C12: when the uploads served at once have all returned, no team is the
\* assigned_team of more than one in-progress task.
C12_TeamExclusiveUnderInterleaving ==
    AllDone =>
        \A i \in TeamIdx :
            Cardinality({ c \in TaskIdx :
                            /\ cleanups[c].status = IN_PROGRESS
                            /\ cleanups[c].assigned_team = teams[i].team_id }) <= 1

\* C13: in every stored state, between the two saves included, a task is in
\* progress with team T exactly when T is busy with that task as current_task.
C13_TaskAndTeamSavedAsPair ==
    /\ \A c \in TaskIdx :
          (cleanups[c].status = IN_PROGRESS /\ cleanups[c].assigned_team # Null) =>
              \E i \in TeamIdx :
                  /\ teams[i].team_id = cleanups[c].assigned_team
                  /\ teams[i].status = "busy"
                  /\ teams[i].current_task = cleanups[c].report_id
    /\ \A i \in TeamIdx :
          teams[i].status = "busy" =>
              \E c \in TaskIdx :
                  /\ cleanups[c].report_id = teams[i].current_task
                  /\ cleanups[c].status = IN_PROGRESS
                  /\ cleanups[c].assigned_team = teams[i].team_id

\* C14: no operation removes a task: after every step the collection holds every
\* task id it held before, and at least as many records.
C14_NoTaskRemoved ==
    [][ /\ TaskIds(cleanups) \subseteq TaskIds(cleanups')
        /\ Len(cleanups') >= Len(cleanups) ]_vars

\* C14 happens: with two tasks stored, one has just been completed by hand and
\* both are still there.
C14_Witness ==
    /\ Len(cleanups) = 2
    /\ ret.op = "mark_completed"
    /\ ret.result = "completed"
    /\ ret.id \in TaskIds(cleanups)
    /\ cleanups[1].report_id # cleanups[2].report_id

\* C15: a task that a request has created and saved stays in the stored
\* collection whatever the other requests in flight save afterwards.
C15_SavedTaskNotDropped ==
    [][ \A k \in Requests :
          (reqs[k].report_id # Null /\ reqs[k].report_id \in TaskIds(cleanups))
              => reqs[k].report_id \in TaskIds(cleanups') ]_vars

\* C16: create_cleanup_report appends one task that embeds the given report and
\* carries the returned id, changes no task that was there, and leaves the new
\* task pending with no team when no team is available, in progress with a team
\* that was available (now busy on it) otherwise.
C16_CreateAppendsOneTask ==
    [][ \A report \in WideReports, suffix \in AnySuffixDraws(TaskIds(cleanups), now) :
          CreateCleanupReport(report, suffix) =>
            LET n == Len(cleanups) + 1
            IN /\ Len(cleanups') = n
               /\ cleanups'[n].pollution_report = report
               /\ cleanups'[n].report_id = MakeId(now, suffix)
               /\ ret'.id = MakeId(now, suffix)
               /\ \A c \in TaskIdx : cleanups'[c] = cleanups[c]
               /\ IF \A i \in TeamIdx : teams[i].status # "available"
                  THEN /\ cleanups'[n].status = PENDING
                       /\ cleanups'[n].assigned_team = Null
                       /\ teams' = teams
                  ELSE /\ cleanups'[n].status = IN_PROGRESS
                       /\ \E i \in TeamIdx :
                             /\ teams[i].status = "available"
                             /\ cleanups'[n].assigned_team = teams[i].team_id
                             /\ teams'[i].status = "busy"
                             /\ teams'[i].current_task = MakeId(now, suffix)
      ]_vars

\* The index of the first team with this id
TeamAt(team_id) == CHOOSE i \in TeamIdx :
                      /\ teams[i].team_id = team_id
                      /\ \A j \in TeamIdx : j < i => teams[j].team_id # team_id

\* C17: manual assignment to a team that is not available is turned down and
\* changes no task or team; to an available team it leaves the task in progress
\* with assigned_team and assigned_date set and the team busy on the task, and
\* touches nothing but what auto-assignment writes (the task's assignment, status
\* and write time, the team's status, current_task and activity time).
C17_ManualAssignNeedsAvailableTeam ==
    [][ \A id \in TaskIds(cleanups), team_id \in TeamIds(teams) :
          AssignTeam(id, team_id) =>
            IF teams[TeamAt(team_id)].status # "available"
            THEN /\ ret'.result = "not_available"
                 /\ UNCHANGED <<cleanups, teams, rewards>>
            ELSE /\ ret'.result = "assigned"
                 /\ cleanups' = [cleanups EXCEPT ![TaskAt(id)] =
                                    [@ EXCEPT !.status = IN_PROGRESS,
                                              !.assigned_team = team_id,
                                              !.assigned_date = now,
                                              !.updated_at = now]]
                 /\ cleanups'[TaskAt(id)].assigned_date # Null
                 /\ teams' = [teams EXCEPT ![TeamAt(team_id)] =
                                    [@ EXCEPT !.status = "busy",
                                              !.current_task = id,
                                              !.last_activity = now]]
                 /\ rewards' = rewards
      ]_vars

\* C17 happens: a manual assignment to a busy team has just been turned down
\* while another team is available.
C17_Witness ==
    /\ ret.op = "assign_team"
    /\ ret.result = "not_available"
    /\ \E i \in TeamIdx : teams[i].status = "busy"
    /\ \E i \in TeamIdx : teams[i].status = "available"

\* C18: manual completion of a task with an assigned team leaves the task cleaned
\* with completion_date set and the team available with no current task and one
\* more cleanup, and adds exactly 25 cleanup points to every member of the team;
\* on a task with no team it is turned down and changes nothing.
C18_ManualCompletion ==
    [][ \A id \in TaskIds(cleanups) :
          MarkCompleted(id) =>
            IF cleanups[TaskAt(id)].assigned_team = Null
            THEN /\ ret'.result = "no_team"
                 /\ UNCHANGED <<cleanups, teams, rewards>>
            ELSE /\ TeamOfTask(id) # 0
                 /\ cleanups'[TaskAt(id)].status = CLEANED
                 /\ cleanups'[TaskAt(id)].completion_date # Null
                 /\ teams'[TeamOfTask(id)].status = "available"
                 /\ teams'[TeamOfTask(id)].current_task = Null
                 /\ teams'[TeamOfTask(id)].total_cleanups
                       = teams[TeamOfTask(id)].total_cleanups + 1
                 /\ \A e \in Members(TeamOfTask(id)) :
                       CleanupPointsOf(rewards', e) = CleanupPointsOf(rewards, e) + 25
      ]_vars

\* C19: a status update, auto-assignment, manual assignment, verification or
\* manual completion given a task id that no task has, and a manual assignment
\* given a team id that no team has, returns a negative result and leaves the
\* task, team and rewards collections as they were.
C19_MissingIdChangesNothing ==
    [][ ( \/ \E status \in WideStatuses : UpdateCleanupStatus(MissingId, status, <<>>, <<>>)
          \/ AutoAssignTeam(MissingId)
          \/ \E team_id \in WideTeamIds : AssignTeam(MissingId, team_id)
          \/ \E id \in WideTaskIds : AssignTeam(id, MissingId)
          \/ \E email \in VerifierInputs, score \in WideScores :
                SubmitCleanupVerification(MissingId, email, <<>>, <<>>, score)
          \/ \E email \in VerifierInputs, scores \in WideScoreRuns :
                VerifyCleanup(MissingId, email, <<>>, scores)
          \/ MarkCompleted(MissingId) )
        => /\ ret'.result \in {"not_found", "none"}
           /\ UNCHANGED <<cleanups, teams, rewards>>
      ]_vars

\* C19 happens: with tasks and a team stored, a handler given a missing task id
\* has just answered that it found nothing.
C19_Witness ==
    /\ ret.id = MissingId
    /\ ret.result = "not_found"
    /\ ret.op = "update_cleanup_status"
    /\ Len(cleanups) > 0
    /\ Len(teams) > 0

\* C20: from_dict(to_dict(r)) has every field of r, for task, team and rewards
\* records: timestamps, notes, photo list and counters included.
C20_RoundTrip ==
    [][ /\ RoundTripCleanup => cleanups' = cleanups
        /\ RoundTripTeam => teams' = teams
        /\ RoundTripUser => rewards' = rewards ]_vars

\* C20 happens: a cleaned task with notes, two photos and its points, built at
\* second 0, has been through to_dict and from_dict at a later second.
C20_Witness ==
    /\ ret.op = "round_trip"
    /\ ret.result = "cleanup"
    /\ now > 0
    /\ cleanups[1].created_at = 0
    /\ cleanups[1].status = CLEANED
    /\ cleanups[1].completion_date = 0
    /\ cleanups[1].cleanup_points = 33
    /\ Len(cleanups[1].verification_photos) = 2
    /\ cleanups[1].cleanup_notes # <<>>

\* C21: Report.from_dict(r.to_dict()) has every field of r, the creation
\* timestamp included.
C21_ReportRoundTrip ==
    [][ \A k \in Requests :
          RoundTripReport(k) => reqs'[k].report = reqs[k].report ]_vars

\* C22: every task has an id that no other task of the collection has, after any
\* sequence of creations, two within the same second included.
C22_TaskIdsDistinct ==
    \A c \in TaskIdx, d \in TaskIdx :
        c # d => cleanups[c].report_id # cleanups[d].report_id

\* C23: every team's member list contains its leader, names no identity twice
\* and holds at least 2 distinct identities.
C23_TeamMembersWellFormed ==
    \A i \in TeamIdx :
        /\ teams[i].leader_email \in Members(i)
        /\ Cardinality(Members(i)) = Len(teams[i].members)
        /\ Cardinality(Members(i)) >= 2

RewardIdx == 1..Len(rewards)

\* C24: in every stored rewards record, after every award_points call, level is
\* floor(total_points / 100) + 1 and title is the table entry of the level for
\* levels 1 to 10, 'Legendary Guardian' above 10.
C24_LevelAndTitleFollowTotal ==
    \A i \in RewardIdx :
        /\ rewards[i].level = (rewards[i].total_points \div 100) + 1
        /\ rewards[i].title = IF rewards[i].level \in 1..10
                              THEN Titles[rewards[i].level]
                              ELSE "Legendary Guardian"

\* C24 happens: an award has just taken a user who holds points of both kinds
\* past 1000 points, to level 11.
C24_Witness ==
    /\ ret.op = "award_points"
    /\ \E i \in RewardIdx :
          /\ rewards[i].email = ret.result
          /\ rewards[i].total_points >= 1000
          /\ rewards[i].level = 11
          /\ rewards[i].title = "Legendary Guardian"
          /\ rewards[i].reporter_points > 0
          /\ rewards[i].cleanup_points > 0

\* C25: the rewards collection changes only in award_points, which adds a user's
\* record at the first award to that user; get_user_stats leaves the collection
\* as it was.
C25_OnlyAwardsWriteRewards ==
    [][ /\ \A email \in StatsEmails : GetUserStats(email) => rewards' = rewards
        /\ rewards' # rewards => ret'.op = "award_points"
        /\ Len(rewards') > Len(rewards) =>
              /\ FindUser(rewards, ret'.result) = 0
              /\ rewards'[Len(rewards')].email = ret'.result ]_vars

\* C26: under auto-assignment, manual assignment, verification and manual
\* completion (every step but the generic status update) the status of a task
\* stays as it is or moves along pending -> in_progress, in_progress ->
\* in_progress, in_progress -> cleaned or cleaned -> verified; no cleaned or
\* verified task goes back to in_progress, no verified task to cleaned.
C26_StatusMovesAlongEdges ==
    [][ ret'.op # "update_cleanup_status" =>
          \A c \in TaskIdx :
              \/ cleanups'[c].status = cleanups[c].status
              \/ <<cleanups[c].status, cleanups'[c].status>> \in
                    { <<PENDING, IN_PROGRESS>>, <<IN_PROGRESS, IN_PROGRESS>>,
                      <<IN_PROGRESS, CLEANED>>, <<CLEANED, VERIFIED>> } ]_vars

\* C27: update_cleanup_status to cleaned on an existing task sets completion_date
\* and stores cleanup_points = 25 + floor(score / 10), a value in 25..35; when the
\* task's assigned team exists, that team becomes available with no current task,
\* one more cleanup and total_points raised by exactly the stored cleanup_points,
\* and no other team changes.
C27_CleanedUpdate ==
    [][ \A id \in TaskIds(cleanups), notes \in NoteInputs, photos \in UpdatePhotoInputs :
          UpdateCleanupStatus(id, CLEANED, notes, photos) =>
            LET c == TaskAt(id)
                ti == IF cleanups[c].assigned_team = Null THEN 0 ELSE TeamOfTask(id)
            IN /\ cleanups'[c].status = CLEANED
               /\ cleanups'[c].completion_date = now
               /\ cleanups'[c].completion_date # Null
               /\ cleanups'[c].cleanup_points
                     = 25 + (cleanups[c].pollution_report.score \div 10)
               /\ cleanups'[c].cleanup_points \in 25..35
               /\ \A j \in TeamIdx : j # ti => teams'[j] = teams[j]
               /\ ti # 0 =>
                     /\ teams'[ti].status = "available"
                     /\ teams'[ti].current_task = Null
                     /\ teams'[ti].total_cleanups = teams[ti].total_cleanups + 1
                     /\ teams'[ti].total_points
                           = teams[ti].total_points + cleanups'[c].cleanup_points
      ]_vars

\* C27 happens: a task of score 9 has just been set to cleaned with 25 points,
\* its team freed with one cleanup and 25 points, beside a team left untouched.
C27_Witness ==
    /\ ret.op = "update_cleanup_status"
    /\ ret.result = "updated"
    /\ Len(cleanups) = 1
    /\ cleanups[1].status = CLEANED
    /\ cleanups[1].pollution_report.score = 9
    /\ cleanups[1].cleanup_points = 25
    /\ cleanups[1].assigned_team # Null
    /\ Len(teams) = 2
    /\ \E i \in TeamIdx :
          /\ teams[i].team_id = cleanups[1].assigned_team
          /\ teams[i].status = "available"
          /\ teams[i].total_cleanups = 1
          /\ teams[i].total_points = 25
    /\ \E j \in TeamIdx :
          /\ teams[j].team_id # cleanups[1].assigned_team
          /\ teams[j].total_cleanups = 0

\* C28: a task's notes are an append-only log: after every step that writes
\* notes (status update, verification, manual completion) the notes the task
\* had before are a prefix of the notes it has after.
C28_NotesAppendOnly ==
    [][ \A c \in TaskIdx :
          LET old == cleanups[c].cleanup_notes
              new == cleanups'[c].cleanup_notes
          IN /\ Len(old) <= Len(new)
             /\ SubSeq(new, 1, Len(old)) = old ]_vars

\* C29: every step that moves a task into in_progress (auto-assignment, manual
\* assignment, status update) leaves its start_date set: stamped at that step
\* when it was unset, left as it was when it was set.
C29_StartDateSetOnEntry ==
    [][ /\ \A c \in TaskIdx :
             (cleanups[c].status # IN_PROGRESS /\ cleanups'[c].status = IN_PROGRESS) =>
                 /\ cleanups'[c].start_date # Null
                 /\ cleanups[c].start_date # Null =>
                       cleanups'[c].start_date = cleanups[c].start_date
        /\ Len(cleanups') > Len(cleanups) =>
              (cleanups'[Len(cleanups')].status = IN_PROGRESS =>
                  cleanups'[Len(cleanups')].start_date # Null) ]_vars

\* C30: a status update that moves a task into verified adds 10 reporter points
\* to the reporter of the task's report in the rewards ledger.
C30_VerifiedCreditsReporter ==
    [][ \A id \in TaskIds(cleanups), notes \in NoteInputs, photos \in UpdatePhotoInputs :
          ( /\ cleanups[TaskAt(id)].status # VERIFIED
            /\ UpdateCleanupStatus(id, VERIFIED, notes, photos) )
          => LET email == cleanups[TaskAt(id)].pollution_report.reporter_email
             IN /\ ReporterPointsOf(rewards', email) = ReporterPointsOf(rewards, email) + 10
                /\ TotalPointsOf(rewards', email) = TotalPointsOf(rewards, email) + 10
      ]_vars

\* C31: a task that is pending with no team is never assigned automatically
\* afterwards: a step that releases a team or creates another task leaves its
\* status and assigned_team as they were; only a manual assignment or a status
\* update that names the task changes them.
C31_PendingTaskNotReconsidered ==
    [][ \A c \in TaskIdx :
          ( /\ cleanups[c].status = PENDING
            /\ cleanups[c].assigned_team = Null
            /\ ~ ( /\ ret'.op \in {"assign_team", "update_cleanup_status"}
                   /\ ret'.id = cleanups[c].report_id ) )
          => /\ cleanups'[c].status = PENDING
             /\ cleanups'[c].assigned_team = Null ]_vars

\* C32: every per-photo score the verification scorer produces is an integer in
\* 0..100, whatever the upstream answers (JSON with any score, text that does not
\* parse, no answer), and so is the mean the closure decision uses.
C32_ScoresWithinRange ==
    [][ \A k \in Requests, id \in TaskIds(cleanups), email \in VerifierInputs :
          VerifyCleanupUpload(k, id, email, <<>>) =>
            LET scores == reqs'[k].scores
            IN /\ \A i \in 1..Len(scores) : scores[i] \in 0..100
               /\ 0 <= SumSeq(scores)
               /\ SumSeq(scores) <= 100 * Len(scores) ]_vars

\* The upload of request k is answered by no photo's analysis: the scoring
\* service is unavailable
ServiceDown(k) ==
    /\ reqs[k].responses # <<>>
    /\ \A i \in 1..Len(reqs[k].responses) : reqs[k].responses[i] = NoResponse

\* C34: while the scoring service is unavailable every photo of a verification
\* is scored 45 and the verification of a task in progress by a member of its
\* team is rejected: the task stays in progress and the team busy on it.
C34_UnavailableServiceRejects ==
    [][ \A k \in Requests, id \in TaskIds(cleanups), email \in VerifierInputs :
          ( /\ ServiceDown(k)
            /\ WorkedOn(id)
            /\ email \in Members(TeamOfTask(id))
            /\ VerifyCleanupUpload(k, id, email, <<>>) )
          => /\ Len(reqs'[k].scores) = Len(reqs[k].responses)
             /\ \A i \in 1..Len(reqs'[k].scores) : reqs'[k].scores[i] = 45
             /\ ret'.result = "rejected"
             /\ cleanups'[TaskAt(id)].status = IN_PROGRESS
             /\ teams' = teams
             /\ teams'[TeamOfTask(id)].status = "busy"
             /\ teams'[TeamOfTask(id)].current_task = id
             /\ rewards' = rewards ]_vars

\* C34 happens: two uploads made while the service was unavailable have both
\* been scored 45 per photo, and the task is still in progress, its team busy.
C34_Witness ==
    /\ ret.op = "verify_cleanup"
    /\ ret.result = "rejected"
    /\ \A k \in Requests : reqs[k].pc = "done" /\ reqs[k].scores = <<45, 45>>
    /\ Len(reqs) >= 2
    /\ ret.id \in TaskIds(cleanups)
    /\ WorkedOn(ret.id)

\* C33: no cleanup operation changes the report snapshot of a task: the
\* pollution_report of a new task is the report given to its creation, and no
\* assignment, status update, verification or manual completion changes the
\* pollution_report of any task.
C33_SnapshotNeverChanges ==
    [][ /\ \A c \in TaskIdx :
             cleanups'[c].pollution_report = cleanups[c].pollution_report
        /\ \A report \in WideReports, suffix \in AnySuffixDraws(TaskIds(cleanups), now) :
             CreateCleanupReport(report, suffix) =>
                 cleanups'[Len(cleanups')].pollution_report = report ]_vars

\* C33 happens: two tasks made from different reports are stored, and the first
\* has been assigned and then closed by an accepted verification.
C33_Witness ==
    /\ Len(cleanups) = 2
    /\ cleanups[1].pollution_report # cleanups[2].pollution_report
    /\ cleanups[1].pollution_report \in WideReports
    /\ cleanups[2].pollution_report \in WideReports
    /\ ret.op = "verify_cleanup"
    /\ ret.result = "accepted"
    /\ ret.id = cleanups[1].report_id
    /\ cleanups[1].status = CLEANED

\* The tasks assigned to team i
TasksOf(i) == { c \in TaskIdx : cleanups[c].assigned_team = teams[i].team_id }

\* C35: the completion effects of a task are applied at most once, whatever is
\* repeated: a team's total_cleanups is at most the number of tasks assigned to
\* it, and a member's cleanup points are at most the completion points (25)
\* per task of the team.
C35_CompletionCountedOnce ==
    \A i \in TeamIdx :
        /\ teams[i].total_cleanups <= Cardinality(TasksOf(i))
        /\ \A e \in Members(i) :
              CleanupPointsOf(rewards, e) <= TeamPoints * Cardinality(TasksOf(i))

\* A step that completes task id: a manual completion, an accepted
\* verification, or a status update to cleaned
CompletionStep(id) ==
    /\ ret'.id = id
    /\ \/ ret'.op = "mark_completed" /\ ret'.result = "completed"
       \/ VerificationStep /\ ret'.result = "accepted"
       \/ /\ ret'.op = "update_cleanup_status" /\ ret'.result = "updated"
          /\ \E c \in TaskIdx : /\ cleanups'[c].report_id = id
                                /\ cleanups'[c].status = CLEANED

\* C36: a step completing task X changes the status or the current_task of a
\* team only if that team's current_task was X; a team that has since been
\* assigned to another task Y stays busy on Y.
C36_CompletionFreesOnlyItsTeam ==
    [][\A id \in TaskIds(cleanups) : CompletionStep(id) =>
          \A i \in TeamIdx :
              (teams'[i].status # teams[i].status
                  \/ teams'[i].current_task # teams[i].current_task)
              => teams[i].current_task = id]_vars

\* C37: for every task id, at most one team has current_task equal to it; in
\* particular a manual assignment of a task that already has a busy team leaves
\* only one team on the task.
C37_OneTeamPerTask ==
    \A id \in TaskIds(cleanups) :
        Cardinality({ i \in TeamIdx : teams[i].current_task = id }) <= 1

\* C38: on a task with an assigned team and a member of that team, the manager's
\* submit_cleanup_verification and the route's verify_cleanup decide alike for
\* every integer score in 0..100: both accept or both reject, and they leave the
\* same task status and the same team statuses behind.
C38_ManagerAndRouteDecideAlike ==
    \A id \in TaskIds(cleanups), email \in VerifierInputs, score \in 0..MaxScore :
        LET m == SubmitVerification(cleanups, teams, id, email, <<>>, <<>>, score, now)
            r == VerifyCleanupRoute(cleanups, teams, rewards, id, email, <<>>,
                                    <<score>>, now)
        IN r.result \in {"accepted", "rejected"} =>
              /\ m.result = r.result
              /\ \A c \in TaskIdx : m.cleanups[c].status = r.cleanups[c].status
              /\ \A i \in TeamIdx : m.teams[i].status = r.teams[i].status

\* C39: started from the same state, the three ways of completing a task (the
\* status update to cleaned, a verification the route accepts, the manual
\* completion) leave the same cleanup_points on the task and the same
\* total_points on every team, so that a team's total_points is the sum of the
\* cleanup_points of its completions.
C39_CompletionsLeaveSamePoints ==
    \A id \in TaskIds(cleanups), email \in VerifierInputs, scores \in ScoreRuns :
        LET u == UpdateStatus(cleanups, teams, id, CLEANED, <<>>, <<>>, now)
            v == VerifyCleanupRoute(cleanups, teams, rewards, id, email, <<>>, scores, now)
            m == MarkCompletedRoute(cleanups, teams, rewards, id, now)
        IN v.result = "accepted" =>
              /\ \A c \in TaskIdx :
                    /\ u.cleanups[c].cleanup_points = v.cleanups[c].cleanup_points
                    /\ u.cleanups[c].cleanup_points = m.cleanups[c].cleanup_points
              /\ \A i \in TeamIdx :
                    /\ u.teams[i].total_points = v.teams[i].total_points
                    /\ u.teams[i].total_points = m.teams[i].total_points

\* C40: the counts returned by get_cleanup_stats partition the collections:
\* pending + in_progress + cleaned + verified equals total_reports, and
\* available_teams + busy_teams is at most total_teams.
C40_StatsPartition ==
    LET stats == GetCleanupStats(cleanups, teams)
    IN /\ stats.pending + stats.in_progress + stats.cleaned + stats.verified
            = stats.total_reports
       /\ stats.available_teams + stats.busy_teams <= stats.total_teams

====
